---- MODULE Spec2Model ----
(***************************************************************************)
(* Data-access layer of the club-events directory (db/db_operations.py):   *)
(* the permission evaluator, the retry-write helper add_to_db, the         *)
(* session scope manager and the add_user accessor, over a relational      *)
(* store with one session.                                                 *)
(***************************************************************************)
EXTENDS Integers, Sequences, FiniteSets, TLC

(* ---------------------------------------------------------------- bounds *)
MaxUsers == 2          \* user ids (and emails) are 1..MaxUsers
MaxClubs == 2          \* club ids are 1..MaxClubs
MaxEvents == 1         \* event ids are 1..MaxEvents
MaxRows == 3           \* rows of a store the permission evaluator is asked about
MaxOthers == 1         \* secondary entities handed to add_to_db
MaxCalls == 3          \* add_user calls made through the session
MaxSessions == 2       \* sessions that work on the store side by side
MaxTags == 3           \* tag values are 1..MaxTags
MaxTexts == 2          \* distinct contents (title, description, ...) of an event

(* ------------------------------------------------------------- constants *)
MAX_COMMIT_RETRIES == 10

\* Python's None; generated keys start at 1, so 0 is no key (and is falsy,
\* as None is).
None == 0

\* schema.UserPrivilege and schema.MemberPrivilege values
NORMAL == 0
ADMIN == 1
MEMBER == 0
OFFICER == 1

UserIds == 1..MaxUsers
Emails == 1..MaxUsers
ClubIds == 1..MaxClubs
EventIds == 1..MaxEvents
UserPrivileges == {NORMAL, ADMIN}
MemberPrivileges == {MEMBER, OFFICER}

VARIABLES
    db,         \* the committed store: what every session sees
    pending,    \* rows the session has added and not yet committed
    permCall,   \* the last has_edit_permission call and what it returned
    faulty,     \* whether the store may fail a commit for another reason
                \* than an integrity conflict (connection lost, ...)
    atd,        \* the running add_to_db call: its arguments and locals
    usr,        \* the running add_user call
    history,    \* the add_user calls that returned: email and value
    scope,      \* the running session_scope
    ses,        \* per session, the accessor call it is running
    budget      \* per session, the calls it may still start (-1: any number)

callVars == <<faulty, atd, usr, history, scope, ses, budget>>
vars == <<db, pending, permCall, faulty, atd, usr, history, scope, ses, budget>>

(* ----------------------------------------------------------------- store *)
UserRows == [id : UserIds, email : Emails, user_privilege : UserPrivileges]
EventRows == [id : EventIds, user_id : UserIds, club_id : ClubIds \cup {None}]
MemberRows == [user_id : UserIds, club_id : ClubIds,
               member_privilege : MemberPrivileges]

EmptyDb == [users |-> {}, events |-> {}, members |-> {}, tags |-> {}]

\* what a session holds before flush: the entity's table and its columns,
\* the generated id not yet assigned
NewUser(email, user_privilege) ==
    [t |-> "User", email |-> email, user_privilege |-> user_privilege]
NewClubMembership(user_id, club_id, member_privilege) ==
    [t |-> "ClubMembership", user_id |-> user_id, club_id |-> club_id,
     member_privilege |-> member_privilege]
\* content stands for the columns update_event assigns together: title,
\* description, description_html, location, start_date, end_date,
\* start_time, end_time, cta_link
NewEvent(user_id, club_id, content) ==
    [t |-> "Event", user_id |-> user_id, club_id |-> club_id,
     content |-> content]
NoRow == [t |-> "None"]

Max(S) == CHOOSE x \in S : \A y \in S : y <= x

\* the next generated primary key of a table
NextId(rows) == IF rows = {} THEN 1 ELSE Max({r.id : r \in rows}) + 1

\* the store's uniqueness constraints: User.email, and one ClubMembership
\* per (user, club)
Conflicts(d, r) ==
    IF r.t = "User"
    THEN \E u \in d.users : u.email = r.email
    ELSE IF r.t = "Event" THEN FALSE
    ELSE \E m \in d.members :
             m.user_id = r.user_id /\ m.club_id = r.club_id

InsertRow(d, r) ==
    IF r.t = "User"
    THEN [d EXCEPT !.users = @ \cup
             {[id |-> NextId(d.users), email |-> r.email,
               user_privilege |-> r.user_privilege]}]
    ELSE IF r.t = "Event"
    THEN [d EXCEPT !.events = @ \cup
             {[id |-> NextId(d.events), user_id |-> r.user_id,
               club_id |-> r.club_id, content |-> r.content]}]
    ELSE [d EXCEPT !.members = @ \cup
             {[user_id |-> r.user_id, club_id |-> r.club_id,
               member_privilege |-> r.member_privilege]}]

\* session.commit(): the pending rows are inserted in the order they were
\* added; the first one that breaks a uniqueness constraint raises
\* IntegrityError and nothing is stored
RECURSIVE InsertAll(_, _)
InsertAll(d, rows) ==
    IF rows = <<>> THEN [ok |-> TRUE, db |-> d]
    ELSE IF Conflicts(d, Head(rows)) THEN [ok |-> FALSE, db |-> d]
    ELSE InsertAll(InsertRow(d, Head(rows)), Tail(rows))

Commit(d, rows) ==
    LET res == InsertAll(d, rows)
    IN  IF res.ok THEN res ELSE [ok |-> FALSE, db |-> d]

RowCount(d) ==
    Cardinality(d.users) + Cardinality(d.events) + Cardinality(d.members)

\* session.query(M).filter(...).first(): a matching row, or None
First(rows) == IF rows = {} THEN None ELSE CHOOSE r \in rows : TRUE

(* ---------------------------------------------------- permission checking *)
QueryUserById(d, user_id) == {u \in d.users : u.id = user_id}

QueryEventById(d, event_id) == {e \in d.events : e.id = event_id}

IsAdminNever(user) == FALSE

\* user_privilege == schema.UserPrivilege.ADMIN.value
IsAdmin(user) == user.user_privilege = ADMIN

IsOfficerOfAnyClub(d, user_id, club_id) ==
    \E m \in d.members :
        /\ m.user_id = user_id
        /\ m.member_privilege = OFFICER

\* the ClubMembership query of has_edit_permission: a row of this user, this
\* club and privilege OFFICER exists
IsOfficer(d, user_id, club_id) ==
    \E m \in d.members :
        /\ m.user_id = user_id
        /\ m.club_id = club_id
        /\ m.member_privilege = OFFICER

EventPermissionGuardInverted(d, user_id, event_id) ==
    LET events == QueryEventById(d, event_id)
        event == First(events)
    IN  IF events # {} THEN FALSE
        ELSE TRUE

\* has_edit_permission after the admin check: submitter, or officer of the
\* event's club
EventPermission(d, user_id, event_id) ==
    LET events == QueryEventById(d, event_id)
        event == First(events)
    IN  IF events = {} THEN FALSE
        ELSE IF event.user_id = user_id THEN TRUE
        ELSE IF event.club_id = None THEN FALSE
        ELSE IsOfficer(d, user_id, event.club_id)

has_edit_permission(d, user_id, event_id) ==
    LET users == QueryUserById(d, user_id)
        user == First(users)
    IN  IF users = {} THEN FALSE
        ELSE IF IsAdmin(user) THEN TRUE
        ELSE EventPermission(d, user_id, event_id)

NoCall == [called |-> FALSE, user_id |-> None, event_id |-> None,
           result |-> FALSE]

\* one call has_edit_permission(session, user_id, event_id)
has_edit_permission_call ==
    \E user_id \in UserIds, event_id \in EventIds :
        /\ permCall' = [called |-> TRUE, user_id |-> user_id,
                        event_id |-> event_id,
                        result |-> has_edit_permission(db, user_id, event_id)]
        /\ UNCHANGED <<db, pending, callVars>>

(* The store the evaluator is asked about: any rows that respect the keys  *)
(* (user id and email unique, event id unique, one membership per (user,   *)
(* club), memberships of existing users), up to MaxRows rows.              *)
StoreHasUser ==
    \E r \in UserRows :
        /\ ~permCall.called
        /\ RowCount(db) < MaxRows
        /\ r.email = r.id
        /\ \A u \in db.users : u.id # r.id
        /\ db' = [db EXCEPT !.users = @ \cup {r}]
        /\ UNCHANGED <<pending, permCall, callVars>>

StoreHasEvent ==
    \E r \in EventRows :
        /\ ~permCall.called
        /\ RowCount(db) < MaxRows
        /\ \A e \in db.events : e.id # r.id
        /\ db' = [db EXCEPT !.events = @ \cup {r}]
        /\ UNCHANGED <<pending, permCall, callVars>>

StoreHasMember ==
    \E r \in MemberRows :
        /\ ~permCall.called
        /\ RowCount(db) < MaxRows
        /\ \E u \in db.users : u.id = r.user_id
        /\ \A m \in db.members :
               ~(m.user_id = r.user_id /\ m.club_id = r.club_id)
        /\ db' = [db EXCEPT !.members = @ \cup {r}]
        /\ UNCHANGED <<pending, permCall, callVars>>

(* ------------------------------------------------------------- add_to_db *)
IntegrityError == "IntegrityError"
OperationalError == "OperationalError"
NoError == ""

\* A resolution callback is described by the invocation at which it removes
\* the conflicting condition: k in 1..MAX_COMMIT_RETRIES removes it when it
\* runs for the k-th time (and it stays removed); NeverResolves runs and
\* removes nothing.
NeverResolves == MAX_COMMIT_RETRIES + 1
Callbacks == 1..NeverResolves

Resolves(rollbackfunc, runs) ==
    /\ rollbackfunc # None
    /\ rollbackfunc # NeverResolves
    /\ runs >= rollbackfunc

\* what a resolving callback does to the store: the rows that collide with
\* the entities to insert are gone
RemoveConflicts(d, rows) ==
    LET rs == {rows[i] : i \in 1..Len(rows)}
    IN  [d EXCEPT
           !.users = {u \in @ : ~\E r \in rs :
                          r.t = "User" /\ r.email = u.email},
           !.members = {m \in @ : ~\E r \in rs :
                          /\ r.t = "ClubMembership"
                          /\ r.user_id = m.user_id
                          /\ r.club_id = m.club_id}]

IdleFrame ==
    [pc |-> "idle", obj |-> NoRow, others |-> <<>>, rollbackfunc |-> None,
     retry |-> 0, committed |-> FALSE, attempts |-> 0, conflicts |-> 0,
     rollbacks |-> 0, cbCalls |-> 0, lastError |-> NoError, obj_id |-> None,
     dbAtCall |-> EmptyDb]

\* add_to_db(session, obj, others, rollbackfunc) is called
add_to_db_call(obj, others, rollbackfunc) ==
    [IdleFrame EXCEPT !.pc = "call", !.obj = obj, !.others = others,
                      !.rollbackfunc = rollbackfunc]

\* retry = MAX_COMMIT_RETRIES; committed = False
add_to_db_enter ==
    /\ atd.pc = "call"
    /\ atd' = [atd EXCEPT !.pc = "while", !.retry = MAX_COMMIT_RETRIES,
                          !.committed = FALSE, !.dbAtCall = db]
    /\ UNCHANGED <<db, pending, permCall, faulty, ses, budget, usr, history, scope>>

LoopContinuesOffByOne(committed, retry) == ~committed /\ retry > 1

LoopContinuesUnbounded(committed, retry) == ~committed

\* while (not committed and retry > 0)
LoopContinues(committed, retry) == ~committed /\ retry > 0

CaughtBareExcept(err) == TRUE

\* except exc.IntegrityError
Caught(err) == err = IntegrityError

RetryBlind(retry, rollbackfunc) == retry - 1

\* if rollbackfunc: rollbackfunc()  else: retry = 0;  then retry -= 1
RetryAfterConflict(retry, rollbackfunc) ==
    (IF rollbackfunc # None THEN retry ELSE 0) - 1

\* One pass of the loop body: session.add(obj), session.add(o) for each of
\* the others, session.commit(); on
\* IntegrityError roll back, run the callback if there is one, and count the
\* retry down; any other error leaves the function.
add_to_db_attempt ==
    /\ atd.pc = "while"
    /\ LoopContinues(atd.committed, atd.retry)
    /\ \E fault \in {FALSE} \cup {f \in {TRUE} : faulty} :
        LET added == pending \o <<atd.obj>> \o atd.others
            res == Commit(db, added)
            err == IF fault THEN OperationalError
                   ELSE IF res.ok THEN NoError ELSE IntegrityError
            runs == atd.cbCalls + 1
        IN  IF err = NoError
            THEN /\ db' = res.db
                 /\ pending' = <<>>
                 /\ atd' = [atd EXCEPT !.committed = TRUE,
                                !.attempts = @ + 1,
                                !.lastError = NoError,
                                !.obj_id =
                                    IF atd.obj.t = "User"
                                    THEN NextId(db.users) ELSE None]
            ELSE IF Caught(err)
            THEN /\ pending' = <<>>
                 /\ db' = IF Resolves(atd.rollbackfunc, runs)
                          THEN RemoveConflicts(db, added) ELSE db
                 /\ atd' = [atd EXCEPT
                                !.attempts = @ + 1,
                                !.conflicts = @ + 1,
                                !.rollbacks = @ + 1,
                                !.lastError = err,
                                !.cbCalls = IF atd.rollbackfunc # None
                                            THEN runs ELSE @,
                                !.retry = RetryAfterConflict(
                                              atd.retry, atd.rollbackfunc)]
            ELSE /\ pending' = added
                 /\ db' = db
                 /\ atd' = [atd EXCEPT !.pc = "raised",
                                !.attempts = @ + 1,
                                !.lastError = err]
    /\ UNCHANGED <<permCall, faulty, ses, budget, usr, history, scope>>

\* return committed
add_to_db_return ==
    /\ atd.pc = "while"
    /\ ~LoopContinues(atd.committed, atd.retry)
    /\ atd' = [atd EXCEPT !.pc = "returned"]
    /\ UNCHANGED <<db, pending, permCall, faulty, ses, budget, usr, history, scope>>

(* --------------------------------------------------------------- add_user *)
IdleUser == [pc |-> "idle", email |-> None, result |-> None,
             error |-> NoError]
NoHistory == <<>>

QueryUserByEmailFindsNothing(d, email) == {}

\* session.query(User).filter(User.email==email)
QueryUserByEmail(d, email) == {u \in d.users : u.email = email}

AddUserExistingPromoted(d, curr_user, user_privilege) ==
    [d EXCEPT !.users =
        {IF u.id = curr_user.id
         THEN [u EXCEPT !.user_privilege = Max({@, user_privilege})]
         ELSE u : u \in @}]

\* if curr_user: return curr_user.id -- the store after this branch: the
\* row is not written and user_privilege is not looked at
AddUserExisting(d, curr_user, user_privilege) == d

\* add_user(session, email, user_privilege) up to its call of add_to_db: the
\* id of the user who has this email, or a new User handed to add_to_db
add_user_call ==
    /\ usr.pc = "idle"
    /\ atd.pc = "idle"
    /\ scope.pc \in {"none", "body"}
    /\ Len(history) < MaxCalls
    /\ \E email \in Emails, user_privilege \in UserPrivileges :
        LET curr_user == QueryUserByEmail(db, email)
        IN  IF curr_user # {}
            THEN /\ usr' = [IdleUser EXCEPT !.email = email,
                                !.result = First(curr_user).id]
                 /\ history' = Append(history,
                                [email |-> email,
                                 result |-> First(curr_user).id])
                 /\ atd' = atd
                 /\ db' = AddUserExisting(db, First(curr_user),
                                          user_privilege)
            ELSE /\ usr' = [IdleUser EXCEPT !.pc = "adding",
                                !.email = email]
                 /\ history' = history
                 /\ atd' = add_to_db_call(NewUser(email, user_privilege),
                                       <<>>, None)
                 /\ db' = db
    /\ UNCHANGED <<pending, permCall, faulty, ses, budget, scope>>

\* add_user after add_to_db: new_user.id if it committed, else None; an
\* error of add_to_db goes on to the caller
add_user_return ==
    /\ usr.pc = "adding"
    /\ atd.pc \in {"returned", "raised"}
    /\ IF atd.pc = "raised"
       THEN /\ usr' = [usr EXCEPT !.pc = "raised",
                                  !.error = atd.lastError]
            /\ history' = history
       ELSE LET result == IF atd.committed THEN atd.obj_id ELSE None
            IN  /\ usr' = [usr EXCEPT !.pc = "idle", !.result = result]
                /\ history' = Append(history,
                                [email |-> usr.email, result |-> result])
    /\ atd' = IdleFrame
    /\ UNCHANGED <<db, pending, permCall, faulty, ses, budget, scope>>

(* ---------------------------------------------------------- session_scope *)
BodyError == "BodyError"

\* log: the session operations session_scope itself performs, in order (the
\* commits and rollbacks of the accessors the body calls are not in it);
\* raised: the error that left the body or the final commit; propagated: the
\* error that leaves the scope
NoScope == [pc |-> "none", log |-> <<>>, raised |-> NoError,
            propagated |-> NoError, dbAtEnter |-> EmptyDb]

\* session = Session(); the body starts at the yield
session_scope_enter ==
    /\ scope.pc = "idle"
    /\ scope' = [scope EXCEPT !.pc = "body", !.dbAtEnter = db]
    /\ UNCHANGED <<db, pending, permCall, faulty, ses, budget, atd, usr, history>>

BodyIdle ==
    /\ scope.pc = "body"
    /\ usr.pc = "idle"
    /\ atd.pc = "idle"

\* the body raises an error of its own
BodyRaise ==
    /\ BodyIdle
    /\ scope' = [scope EXCEPT !.pc = "except", !.raised = BodyError]
    /\ UNCHANGED <<db, pending, permCall, faulty, ses, budget, atd, usr, history>>

\* an error of an accessor the body called leaves the body
BodyPropagate ==
    /\ scope.pc = "body"
    /\ usr.pc = "raised"
    /\ scope' = [scope EXCEPT !.pc = "except", !.raised = usr.error]
    /\ usr' = IdleUser
    /\ UNCHANGED <<db, pending, permCall, faulty, ses, budget, atd, history>>

\* the body ends
BodyDone ==
    /\ BodyIdle
    /\ scope' = [scope EXCEPT !.pc = "commit"]
    /\ UNCHANGED <<db, pending, permCall, faulty, ses, budget, atd, usr, history>>

\* session.commit() after the yield
session_scope_commit ==
    /\ scope.pc = "commit"
    /\ \E fault \in {FALSE} \cup {f \in {TRUE} : faulty} :
        LET res == Commit(db, pending)
            err == IF fault THEN OperationalError
                   ELSE IF res.ok THEN NoError ELSE IntegrityError
        IN  IF err = NoError
            THEN /\ db' = res.db
                 /\ pending' = <<>>
                 /\ scope' = [scope EXCEPT !.pc = "finally",
                                  !.log = Append(@, "commit")]
            ELSE /\ db' = db
                 /\ pending' = pending
                 /\ scope' = [scope EXCEPT !.pc = "except",
                                  !.raised = err,
                                  !.log = Append(@, "commit")]
    /\ UNCHANGED <<permCall, faulty, ses, budget, atd, usr, history>>

ReraiseSwallowed(err) == NoError

\* raise
Reraise(err) == err

\* except: session.rollback(); raise
session_scope_except ==
    /\ scope.pc = "except"
    /\ pending' = <<>>
    /\ scope' = [scope EXCEPT !.pc = "finally",
                     !.log = Append(@, "rollback"),
                     !.propagated = Reraise(scope.raised)]
    /\ UNCHANGED <<db, permCall, faulty, ses, budget, atd, usr, history>>

\* finally: session.close()
session_scope_finally ==
    /\ scope.pc = "finally"
    /\ scope' = [scope EXCEPT !.pc = "exit", !.log = Append(@, "close")]
    /\ UNCHANGED <<db, pending, permCall, faulty, ses, budget, atd, usr, history>>

(* ------------------------------------------------- sessions side by side *)
(* Every session runs one accessor call at a time on the shared store. A   *)
(* query reads the rows committed when it runs; a commit makes the         *)
(* session's inserts, updates and deletes visible to all; nothing is       *)
(* locked, and a conflict shows only as IntegrityError at commit.          *)
Sessions == 1..MaxSessions

\* curr: the privilege of the membership the query found, -1 for none;
\* deleted: the EventTag rows the session's DELETE removed;
\* failed: update_event's local error; given: event_tags is not None;
\* success: the value update_event returned; result: the id returned;
\* error: the exception that left the call; before: the store at the call
IdleSes ==
    [op |-> "none", pc |-> "idle", email |-> None, user_id |-> None,
     club_id |-> None, privilege |-> 0, event_id |-> None, tags |-> <<>>,
     content |-> None, curr |-> -1, obj |-> NoRow, obj_id |-> None,
     retry |-> 0, committed |-> FALSE, deleted |-> {}, failed |-> FALSE,
     given |-> TRUE, success |-> FALSE,
     result |-> None, error |-> NoError, before |-> EmptyDb]

IdleSessions == [s \in Sessions |-> IdleSes]
NoBudget == [s \in Sessions |-> 0]

MayStart(s) ==
    /\ ses[s].pc \in {"idle", "done", "raised"}
    /\ budget[s] # 0

Spend(s) ==
    [budget EXCEPT ![s] = IF @ > 0 THEN @ - 1 ELSE @]

\* the frame of a new call of session s
Start(op) == [IdleSes EXCEPT !.op = op, !.before = db]

\* add_to_db(session, obj): retry = MAX_COMMIT_RETRIES; committed = False
EnterAddToDb(frame, obj) ==
    [frame EXCEPT !.pc = "while", !.obj = obj,
                  !.retry = MAX_COMMIT_RETRIES, !.committed = FALSE]

sesUnchanged == <<pending, permCall, faulty, atd, usr, history, scope>>

\* one pass of add_to_db's loop in session s (no others, no rollbackfunc:
\* the accessors pass neither)
ses_add_to_db_attempt(s) ==
    /\ ses[s].pc = "while"
    /\ LoopContinues(ses[s].committed, ses[s].retry)
    /\ \E fault \in {FALSE} \cup {f \in {TRUE} : faulty} :
        LET res == Commit(db, <<ses[s].obj>>)
            err == IF fault THEN OperationalError
                   ELSE IF res.ok THEN NoError ELSE IntegrityError
        IN  IF err = NoError
            THEN /\ db' = res.db
                 /\ ses' = [ses EXCEPT ![s].committed = TRUE,
                              ![s].obj_id =
                                  IF ses[s].obj.t = "User"
                                  THEN NextId(db.users)
                                  ELSE IF ses[s].obj.t = "Event"
                                  THEN NextId(db.events) ELSE None]
            ELSE IF Caught(err)
            THEN /\ db' = db
                 /\ ses' = [ses EXCEPT ![s].retry =
                                RetryAfterConflict(ses[s].retry, None)]
            ELSE /\ db' = db
                 /\ ses' = [ses EXCEPT ![s].pc = "raised",
                                       ![s].error = err]
    /\ UNCHANGED <<budget, sesUnchanged>>

(* -------------------------------------------- add_user, session by session *)
\* add_user(session, email, user_privilege) up to add_to_db
ses_add_user_query(s) ==
    /\ MayStart(s)
    /\ \E email \in Emails, user_privilege \in UserPrivileges :
        LET curr_user == QueryUserByEmail(db, email)
            frame == [Start("add_user") EXCEPT !.email = email,
                          !.privilege = user_privilege]
        IN  /\ ses' = [ses EXCEPT ![s] =
                   IF curr_user # {}
                   THEN [frame EXCEPT !.pc = "done",
                                      !.result = First(curr_user).id]
                   ELSE EnterAddToDb(frame, NewUser(email, user_privilege))]
            /\ db' = IF curr_user # {}
                     THEN AddUserExisting(db, First(curr_user),
                                          user_privilege)
                     ELSE db
    /\ budget' = Spend(s)
    /\ UNCHANGED sesUnchanged

\* add_to_db returned: new_user.id if committed, else None
ses_add_user_return(s) ==
    /\ ses[s].op = "add_user"
    /\ ses[s].pc = "while"
    /\ ~LoopContinues(ses[s].committed, ses[s].retry)
    /\ ses' = [ses EXCEPT ![s].pc = "done",
                   ![s].result = IF ses[s].committed
                                 THEN ses[s].obj_id ELSE None]
    /\ UNCHANGED <<db, budget, sesUnchanged>>

(* ---------------------------------------------------------- add_club_member *)
QueryMembership(d, club_id, user_id) ==
    {m \in d.members : m.club_id = club_id /\ m.user_id = user_id}

RaisesPrivilegeAlways(member_privilege, current) ==
    member_privilege # current

\* if member_privilege > curr_membership.member_privilege
RaisesPrivilege(member_privilege, current) == member_privilege > current

\* add_club_member(session, club_id, user_id, member_privilege) up to the
\* commit of the raised privilege, or up to add_to_db
ses_add_club_member_query(s) ==
    /\ MayStart(s)
    /\ \E club_id \in ClubIds, user_id \in UserIds,
          member_privilege \in MemberPrivileges :
        LET curr_membership == QueryMembership(db, club_id, user_id)
            current == First(curr_membership).member_privilege
            frame == [Start("add_club_member") EXCEPT
                          !.club_id = club_id, !.user_id = user_id,
                          !.privilege = member_privilege]
        IN  ses' = [ses EXCEPT ![s] =
                IF curr_membership # {}
                THEN [frame EXCEPT
                        !.curr = current,
                        !.pc = IF RaisesPrivilege(member_privilege, current)
                               THEN "update" ELSE "done"]
                ELSE EnterAddToDb(frame,
                        NewClubMembership(user_id, club_id,
                                          member_privilege))]
    /\ budget' = Spend(s)
    /\ UNCHANGED <<db, sesUnchanged>>

\* curr_membership.member_privilege = member_privilege; session.commit()
ses_add_club_member_update(s) ==
    /\ ses[s].op = "add_club_member"
    /\ ses[s].pc = "update"
    /\ \E fault \in {FALSE} \cup {f \in {TRUE} : faulty} :
        IF fault
        THEN /\ db' = db
             /\ ses' = [ses EXCEPT ![s].pc = "raised",
                                   ![s].error = OperationalError]
        ELSE /\ db' = [db EXCEPT !.members =
                         {IF m.club_id = ses[s].club_id
                             /\ m.user_id = ses[s].user_id
                          THEN [m EXCEPT !.member_privilege =
                                             ses[s].privilege]
                          ELSE m : m \in @}]
             /\ ses' = [ses EXCEPT ![s].pc = "done"]
    /\ UNCHANGED <<budget, sesUnchanged>>

\* add_to_db returned; add_club_member returns nothing
ses_add_club_member_return(s) ==
    /\ ses[s].op = "add_club_member"
    /\ ses[s].pc = "while"
    /\ ~LoopContinues(ses[s].committed, ses[s].retry)
    /\ ses' = [ses EXCEPT ![s].pc = "done"]
    /\ UNCHANGED <<db, budget, sesUnchanged>>

(* ----------------------------------------------------------- add_event_tags *)
Tags == 1..MaxTags

RECURSIVE Range(_)
Range(seq) ==
    IF seq = <<>> THEN {} ELSE {Head(seq)} \cup Range(Tail(seq))

\* the lists of event_tags a caller passes: no tag twice
TagLists ==
    {l \in UNION {[1..n -> Tags] : n \in 0..MaxTags} :
        Cardinality(Range(l)) = Len(l)}

TagsOf(d, event_id) == {r.tag : r \in {x \in d.tags : x.event_id = event_id}}

ExistingTagsKept(d, event_id) == {}

\* session.query(EventTag).filter(EventTag.event_id==event_id).delete():
\* the rows the DELETE removes
ExistingTags(d, event_id) == {r \in d.tags : r.event_id = event_id}

\* new_tags.append(EventTag(event_id, tag)) for tag in event_tags
NewTags(event_id, event_tags) ==
    {[event_id |-> event_id, tag |-> t] : t \in Range(event_tags)}

\* add_event_tags up to session.add_all(new_tags): the DELETE has run in
\* the session's transaction, nothing is committed yet
DeleteEventTags(frame, d, event_id, event_tags) ==
    [frame EXCEPT !.pc = "tags_commit", !.event_id = event_id,
                  !.tags = event_tags,
                  !.deleted = ExistingTags(d, event_id)]

\* add_event_tags(session, event_id, event_tags) called by itself
ses_add_event_tags_call(s) ==
    /\ MayStart(s)
    /\ \E event_id \in EventIds, event_tags \in TagLists :
        ses' = [ses EXCEPT ![s] =
                   DeleteEventTags(Start("add_event_tags"), db,
                                   event_id, event_tags)]
    /\ budget' = Spend(s)
    /\ UNCHANGED <<db, sesUnchanged>>

\* what the caller of add_event_tags does when it returns
AfterTags(frame) ==
    [frame EXCEPT !.pc = "done",
                  !.result = IF frame.op = "add_event" THEN frame.obj_id
                             ELSE None,
                  !.success = frame.op = "update_event" /\ ~frame.failed]

\* session.commit() of add_event_tags: the DELETE and the INSERTs become
\* visible together; an error of the commit leaves add_event_tags and its
\* caller
ses_add_event_tags_commit(s) ==
    /\ ses[s].pc = "tags_commit"
    /\ \E fault \in {FALSE} \cup {f \in {TRUE} : faulty} :
        IF fault
        THEN /\ db' = db
             /\ ses' = [ses EXCEPT ![s].pc = "raised",
                                   ![s].error = OperationalError]
        ELSE /\ db' = [db EXCEPT !.tags =
                         (@ \ ses[s].deleted)
                             \cup NewTags(ses[s].event_id, ses[s].tags)]
             /\ ses' = [ses EXCEPT ![s] = AfterTags(ses[s])]
    /\ UNCHANGED <<budget, sesUnchanged>>

(* ---------------------------------------------------------------- add_event *)
Texts == 1..MaxTexts
TypeError == "TypeError"

\* add_event(session, title, user_id, description, event_tags, ...,
\* club_id, ...) up to add_to_db
ses_add_event_call(s) ==
    /\ MayStart(s)
    /\ \E user_id \in UserIds, club_id \in ClubIds \cup {None},
          content \in Texts, event_tags \in TagLists, given \in BOOLEAN :
        /\ given \/ event_tags = <<>>
        /\ ses' = [ses EXCEPT ![s] =
               EnterAddToDb([Start("add_event") EXCEPT
                                !.user_id = user_id, !.club_id = club_id,
                                !.content = content, !.tags = event_tags,
                                !.given = given],
                            NewEvent(user_id, club_id, content))]
    /\ budget' = Spend(s)
    /\ UNCHANGED <<db, sesUnchanged>>

\* add_to_db returned: if committed, add_event_tags(session, event.id,
\* event_tags), whose loop over event_tags raises TypeError for None;
\* else return None
ses_add_event_return(s) ==
    /\ ses[s].op = "add_event"
    /\ ses[s].pc = "while"
    /\ ~LoopContinues(ses[s].committed, ses[s].retry)
    /\ ses' = [ses EXCEPT ![s] =
           IF ~ses[s].committed
           THEN [ses[s] EXCEPT !.pc = "done", !.result = None]
           ELSE IF ~ses[s].given
           THEN [ses[s] EXCEPT !.pc = "raised", !.error = TypeError]
           ELSE DeleteEventTags(ses[s], db, ses[s].obj_id, ses[s].tags)]
    /\ UNCHANGED <<db, budget, sesUnchanged>>

(* ------------------------------------------------------------- update_event *)
AssignFieldsAndClub(event, content, club_id) ==
    [event EXCEPT !.content = content, !.club_id = club_id]

\* event.title = title ... event.cta_link = cta_link: user_id and club_id
\* are not assigned
AssignFields(event, content, club_id) ==
    [event EXCEPT !.content = content]

TruthyWhenGiven(given, event_tags) == given

\* if event_tags: neither None nor an empty list
Truthy(given, event_tags) == given /\ event_tags # <<>>

\* event = session.query(Event).filter(Event.id==event_id).first();
\* if not event: return False
ses_update_event_query(s) ==
    /\ MayStart(s)
    /\ \E event_id \in EventIds \cup {MaxEvents + 1},
          club_id \in ClubIds \cup {None},
          content \in Texts, event_tags \in TagLists, given \in BOOLEAN :
        /\ given \/ event_tags = <<>>
        /\ LET frame == [Start("update_event") EXCEPT
                            !.event_id = event_id, !.club_id = club_id,
                            !.content = content, !.tags = event_tags,
                            !.given = given]
           IN  ses' = [ses EXCEPT ![s] =
                   IF QueryEventById(db, event_id) = {}
                   THEN [frame EXCEPT !.pc = "done", !.success = FALSE]
                   ELSE [frame EXCEPT !.pc = "assign"]]
    /\ budget' = Spend(s)
    /\ UNCHANGED <<db, sesUnchanged>>

\* after the try statement: if event_tags: add_event_tags(...) up to its
\* commit; return not error
UpdateEventTags(frame, d) ==
    IF Truthy(frame.given, frame.tags)
    THEN DeleteEventTags(frame, d, frame.event_id, frame.tags)
    ELSE [frame EXCEPT !.pc = "done", !.success = ~frame.failed]

\* the try statement: the assignments, then session.commit(); an
\* assignment that raises is answered by session.rollback() and error=True;
\* an error of the commit leaves update_event
ses_update_event_assign(s) ==
    /\ ses[s].op = "update_event"
    /\ ses[s].pc = "assign"
    /\ \E outcome \in {"assigned"}
                       \cup {o \in {"assign raises", "commit raises"} :
                                faulty} :
        CASE outcome = "assigned" ->
               LET d == [db EXCEPT !.events =
                           {IF e.id = ses[s].event_id
                            THEN AssignFields(e, ses[s].content,
                                              ses[s].club_id)
                            ELSE e : e \in @}]
               IN  /\ db' = d
                   /\ ses' = [ses EXCEPT ![s] = UpdateEventTags(ses[s], d)]
          [] outcome = "assign raises" ->
               /\ db' = db
               /\ ses' = [ses EXCEPT ![s] =
                      UpdateEventTags([ses[s] EXCEPT !.failed = TRUE], db)]
          [] outcome = "commit raises" ->
               /\ db' = db
               /\ ses' = [ses EXCEPT ![s].pc = "raised",
                                     ![s].error = OperationalError]
    /\ UNCHANGED <<budget, sesUnchanged>>

(* --------------------------------------------------------- specifications *)
InitPerm ==
    /\ db = EmptyDb
    /\ pending = <<>>
    /\ permCall = NoCall
    /\ faulty = FALSE
    /\ ses = IdleSessions
    /\ budget = NoBudget
    /\ atd = IdleFrame
    /\ usr = IdleUser
    /\ history = NoHistory
    /\ scope = NoScope

NextPerm ==
    \/ StoreHasUser
    \/ StoreHasEvent
    \/ StoreHasMember
    \/ has_edit_permission_call

SpecPerm == InitPerm /\ [][NextPerm]_vars

(* add_to_db called directly: a new user and up to MaxOthers memberships,  *)
(* against a store where another caller may already have inserted a row    *)
(* with the same email or the same (user, club).                           *)
InitAdd ==
    \E userTaken \in BOOLEAN, memberTaken \in BOOLEAN, n \in 0..MaxOthers,
       rollbackfunc \in {None} \cup Callbacks, f \in BOOLEAN :
        /\ db = [EmptyDb EXCEPT
                   !.users = IF userTaken
                             THEN {[id |-> 1, email |-> 1,
                                    user_privilege |-> ADMIN]}
                             ELSE {},
                   !.members = IF memberTaken /\ n >= 1
                               THEN {[user_id |-> 1, club_id |-> 1,
                                      member_privilege |-> MEMBER]}
                               ELSE {}]
        /\ memberTaken => n >= 1
        /\ pending = <<>>
        /\ permCall = NoCall
        /\ faulty = f
        /\ ses = IdleSessions
        /\ budget = NoBudget
        /\ atd = add_to_db_call(NewUser(1, NORMAL),
                             [i \in 1..n |-> NewClubMembership(1, i, OFFICER)],
                             rollbackfunc)
        /\ usr = IdleUser
        /\ history = NoHistory
        /\ scope = NoScope

NextAdd ==
    \/ add_to_db_enter
    \/ add_to_db_attempt
    \/ add_to_db_return

SpecAdd == InitAdd /\ [][NextAdd]_vars

\* the call runs to its end: nothing else is scheduled beside it
SpecAddFair == SpecAdd /\ WF_vars(NextAdd)

(* add_user called any number of times through one session that no scope  *)
(* wraps, on a store with no other writer; a user may be registered        *)
(* before the first call.                                                  *)
InitUser ==
    \E registered \in SUBSET {r \in UserRows : r.id = 1} :
        /\ Cardinality(registered) <= 1
        /\ db = [EmptyDb EXCEPT !.users = registered]
        /\ pending = <<>>
        /\ permCall = NoCall
        /\ faulty = FALSE
        /\ ses = IdleSessions
        /\ budget = NoBudget
        /\ atd = IdleFrame
        /\ usr = IdleUser
        /\ history = NoHistory
        /\ scope = NoScope

NextUser ==
    \/ add_user_call
    \/ add_to_db_enter
    \/ add_to_db_attempt
    \/ add_to_db_return
    \/ add_user_return

SpecUser == InitUser /\ [][NextUser]_vars

(* One session_scope whose body calls add_user any number of times, then   *)
(* ends or raises; the store may fail a commit.                            *)
InitScope ==
    \E f \in BOOLEAN :
        /\ db = EmptyDb
        /\ pending = <<>>
        /\ permCall = NoCall
        /\ faulty = f
        /\ ses = IdleSessions
        /\ budget = NoBudget
        /\ atd = IdleFrame
        /\ usr = IdleUser
        /\ history = NoHistory
        /\ scope = [NoScope EXCEPT !.pc = "idle"]

NextScope ==
    \/ session_scope_enter
    \/ add_user_call
    \/ add_to_db_enter
    \/ add_to_db_attempt
    \/ add_to_db_return
    \/ add_user_return
    \/ BodyRaise
    \/ BodyPropagate
    \/ BodyDone
    \/ session_scope_commit
    \/ session_scope_except
    \/ session_scope_finally

SpecScope == InitScope /\ [][NextScope]_vars

(* add_club_member called up to MaxCalls times through one session, no    *)
(* other writer.                                                           *)
InitMember ==
    /\ db = EmptyDb
    /\ pending = <<>>
    /\ permCall = NoCall
    /\ faulty = FALSE
    /\ atd = IdleFrame
    /\ usr = IdleUser
    /\ history = NoHistory
    /\ scope = NoScope
    /\ ses = IdleSessions
    /\ budget = [s \in Sessions |-> IF s = 1 THEN MaxCalls ELSE 0]

NextMember ==
    \E s \in Sessions :
        \/ ses_add_club_member_query(s)
        \/ ses_add_club_member_update(s)
        \/ ses_add_to_db_attempt(s)
        \/ ses_add_club_member_return(s)

SpecMember == InitMember /\ [][NextMember]_vars

(* Every session makes one add_user call; the calls interleave.            *)
InitRaceUser ==
    /\ db = EmptyDb
    /\ pending = <<>>
    /\ permCall = NoCall
    /\ faulty = FALSE
    /\ atd = IdleFrame
    /\ usr = IdleUser
    /\ history = NoHistory
    /\ scope = NoScope
    /\ ses = IdleSessions
    /\ budget = [s \in Sessions |-> 1]

NextRaceUser ==
    \E s \in Sessions :
        \/ ses_add_user_query(s)
        \/ ses_add_to_db_attempt(s)
        \/ ses_add_user_return(s)

SpecRaceUser == InitRaceUser /\ [][NextRaceUser]_vars

(* Every session makes one add_club_member call; the calls interleave; a   *)
(* membership may exist beforehand.                                        *)
InitRaceMember ==
    \E existing \in SUBSET {m \in MemberRows :
                               m.user_id = 1 /\ m.club_id = 1} :
        /\ Cardinality(existing) <= 1
        /\ db = [EmptyDb EXCEPT !.members = existing]
        /\ pending = <<>>
        /\ permCall = NoCall
        /\ faulty = FALSE
        /\ atd = IdleFrame
        /\ usr = IdleUser
        /\ history = NoHistory
        /\ scope = NoScope
        /\ ses = IdleSessions
        /\ budget = [s \in Sessions |-> 1]

NextRaceMember ==
    \E s \in Sessions :
        \/ ses_add_club_member_query(s)
        \/ ses_add_club_member_update(s)
        \/ ses_add_to_db_attempt(s)
        \/ ses_add_club_member_return(s)

SpecRaceMember == InitRaceMember /\ [][NextRaceMember]_vars

\* the store with every event of EventIds, submitted by user 1 for club 1
StoreWithEvents(tags) ==
    [EmptyDb EXCEPT
        !.events = {[id |-> e, user_id |-> 1, club_id |-> 1, content |-> 1] :
                       e \in EventIds},
        !.tags = tags]

TagRows == [event_id : EventIds, tag : Tags]

(* add_event_tags called any number of times through one session; the     *)
(* events may have tags from calls made before.                            *)
InitTags ==
    \E existing \in SUBSET TagRows :
        /\ db = StoreWithEvents(existing)
        /\ pending = <<>>
        /\ permCall = NoCall
        /\ faulty = FALSE
        /\ atd = IdleFrame
        /\ usr = IdleUser
        /\ history = NoHistory
        /\ scope = NoScope
        /\ ses = IdleSessions
        /\ budget = [s \in Sessions |-> IF s = 1 THEN -1 ELSE 0]

NextTags ==
    \E s \in Sessions :
        \/ ses_add_event_tags_call(s)
        \/ ses_add_event_tags_commit(s)

SpecTags == InitTags /\ [][NextTags]_vars

(* Every session makes one add_event_tags call; the calls interleave; the  *)
(* event may have tags beforehand.                                         *)
InitRaceTags ==
    \E existing \in SUBSET TagRows :
        /\ db = StoreWithEvents(existing)
        /\ pending = <<>>
        /\ permCall = NoCall
        /\ faulty = FALSE
        /\ atd = IdleFrame
        /\ usr = IdleUser
        /\ history = NoHistory
        /\ scope = NoScope
        /\ ses = IdleSessions
        /\ budget = [s \in Sessions |-> 1]

NextRaceTags ==
    \E s \in Sessions :
        \/ ses_add_event_tags_call(s)
        \/ ses_add_event_tags_commit(s)

SpecRaceTags == InitRaceTags /\ [][NextRaceTags]_vars

(* One add_event call on a store without events; commits may fail.         *)
InitEvent ==
    /\ db = EmptyDb
    /\ pending = <<>>
    /\ permCall = NoCall
    /\ faulty \in BOOLEAN
    /\ atd = IdleFrame
    /\ usr = IdleUser
    /\ history = NoHistory
    /\ scope = NoScope
    /\ ses = IdleSessions
    /\ budget = [s \in Sessions |-> IF s = 1 THEN 1 ELSE 0]

NextEvent ==
    \E s \in Sessions :
        \/ ses_add_event_call(s)
        \/ ses_add_to_db_attempt(s)
        \/ ses_add_event_return(s)
        \/ ses_add_event_tags_commit(s)

SpecEvent == InitEvent /\ [][NextEvent]_vars

(* One update_event call on a store with events and tags; assignments and  *)
(* commits may fail.                                                       *)
InitUpdate ==
    \E existing \in SUBSET TagRows :
        /\ db = StoreWithEvents(existing)
        /\ pending = <<>>
        /\ permCall = NoCall
        /\ faulty = TRUE
        /\ atd = IdleFrame
        /\ usr = IdleUser
        /\ history = NoHistory
        /\ scope = NoScope
        /\ ses = IdleSessions
        /\ budget = [s \in Sessions |-> IF s = 1 THEN 1 ELSE 0]

NextUpdate ==
    \E s \in Sessions :
        \/ ses_update_event_query(s)
        \/ ses_update_event_assign(s)
        \/ ses_add_event_tags_commit(s)

SpecUpdate == InitUpdate /\ [][NextUpdate]_vars

(* add_user called any number of times through one session; users may be  *)
(* registered beforehand; the store may fail a commit.                     *)
InitRegistered ==
    \E registered \in SUBSET UserRows :
        /\ {u.id : u \in registered} = 1..Cardinality(registered)
        /\ Cardinality({u.email : u \in registered})
               = Cardinality(registered)
        /\ db = [EmptyDb EXCEPT !.users = registered]
        /\ pending = <<>>
        /\ permCall = NoCall
        /\ faulty \in BOOLEAN
        /\ atd = IdleFrame
        /\ usr = IdleUser
        /\ history = NoHistory
        /\ scope = NoScope
        /\ ses = IdleSessions
        /\ budget = [s \in Sessions |-> IF s = 1 THEN -1 ELSE 0]

NextRegistered ==
    \E s \in Sessions :
        \/ ses_add_user_query(s)
        \/ ses_add_to_db_attempt(s)
        \/ ses_add_user_return(s)

SpecRegistered == InitRegistered /\ [][NextRegistered]_vars

(* ------------------------------------------------------------ claims C1-3 *)
CallUser == QueryUserById(db, permCall.user_id)
CallEvent == QueryEventById(db, permCall.event_id)

\* C1: for every existing user with privilege ADMIN and every event_id (an
\* event of another user, of any club or none, or no event at all),
\* has_edit_permission returns true.
C1_AdminAlwaysPermitted ==
    (permCall.called /\ \E u \in CallUser : u.user_privilege = ADMIN)
        => permCall.result = TRUE

\* an admin who holds no membership was permitted to edit an event that
\* another user submitted for a club
C1_Witness ==
    /\ permCall.called
    /\ permCall.result
    /\ \E u \in CallUser : u.user_privilege = ADMIN
    /\ \E e \in CallEvent :
           /\ e.user_id # permCall.user_id
           /\ e.club_id # None
    /\ \A m \in db.members : m.user_id # permCall.user_id

\* C2: for an existing non-admin user u and an existing event e the result is
\* true iff e.user_id = u, or e has a club and a membership row
\* (u, e.club_id) with privilege OFFICER exists.
C2_SubmitterOrOfficer ==
    (permCall.called /\ \E u \in CallUser : u.user_privilege # ADMIN)
        => \A e \in CallEvent :
               permCall.result =
                   (\/ e.user_id = permCall.user_id
                    \/ /\ e.club_id # None
                       /\ \E m \in db.members :
                              /\ m.user_id = permCall.user_id
                              /\ m.club_id = e.club_id
                              /\ m.member_privilege = OFFICER)

\* a non-admin non-submitter who is OFFICER of the event's club was permitted
C2_Witness ==
    /\ permCall.called
    /\ permCall.result
    /\ \E u \in CallUser : u.user_privilege # ADMIN
    /\ \E e \in CallEvent :
           /\ e.user_id # permCall.user_id
           /\ e.club_id # None

\* C3: a call whose user_id matches no user returns false, a call of an
\* existing non-admin user whose event_id matches no event returns false, and
\* the call leaves the store unchanged.
C3_MissingRowIsFalse ==
    [][(permCall'.called /\ permCall' # permCall) =>
          /\ db' = db
          /\ pending' = pending
          /\ QueryUserById(db, permCall'.user_id) = {} => ~permCall'.result
          /\ (/\ \E u \in QueryUserById(db, permCall'.user_id) :
                     u.user_privilege # ADMIN
              /\ QueryEventById(db, permCall'.event_id) = {})
                 => ~permCall'.result]_vars

\* a non-admin user asked about an id that matches no event, and was refused
C3_Witness ==
    /\ permCall.called
    /\ ~permCall.result
    /\ \E u \in CallUser : u.user_privilege # ADMIN
    /\ CallEvent = {}

(* ------------------------------------------------------------ claims C4-7 *)
\* the entities handed to add_to_db are rows of the store
Persisted ==
    /\ [id |-> atd.obj_id, email |-> atd.obj.email,
        user_privilege |-> atd.obj.user_privilege] \in db.users
    /\ \A i \in 1..Len(atd.others) :
           [user_id |-> atd.others[i].user_id,
            club_id |-> atd.others[i].club_id,
            member_privilege |-> atd.others[i].member_privilege]
               \in db.members

\* C4: without a resolution callback, once the first commit has raised an
\* integrity conflict the session is rolled back, no further insert attempt
\* is made (one commit attempt in total) and add_to_db returns false.
C4_NoCallbackFailsAtOnce ==
    (atd.rollbackfunc = None /\ atd.conflicts >= 1) =>
        /\ atd.attempts = 1
        /\ atd.rollbacks = 1
        /\ pending = <<>>
        /\ db = atd.dbAtCall
        /\ atd.cbCalls = 0
        /\ ~atd.committed
        /\ ~LoopContinues(atd.committed, atd.retry)
        /\ atd.pc \in {"while", "returned"}

\* add_to_db without a callback returned false after one conflicting commit
C4_Witness ==
    /\ atd.pc = "returned"
    /\ atd.rollbackfunc = None
    /\ atd.conflicts = 1
    /\ atd.attempts = 1
    /\ ~atd.committed

\* C5: with a callback after whose k-th run, k <= MAX_COMMIT_RETRIES - 1, the
\* conflict is gone, add_to_db returns true with the primary and every
\* secondary entity stored, after at most MAX_COMMIT_RETRIES commit attempts.
C5_ResolvedWithinBudget ==
    (atd.pc = "returned" /\ atd.rollbackfunc \in 1..(MAX_COMMIT_RETRIES - 1))
        => /\ atd.committed
           /\ atd.attempts <= MAX_COMMIT_RETRIES
           /\ Persisted

\* the callback removed the conflict at its last admissible run and the
\* tenth attempt committed the user and a membership
C5_Witness ==
    /\ atd.pc = "returned"
    /\ atd.rollbackfunc = MAX_COMMIT_RETRIES - 1
    /\ atd.conflicts = MAX_COMMIT_RETRIES - 1
    /\ atd.attempts = MAX_COMMIT_RETRIES
    /\ atd.committed
    /\ Len(atd.others) >= 1
    /\ Persisted

C6_Bounded ==
    /\ atd.attempts <= MAX_COMMIT_RETRIES
    /\ atd.rollbackfunc # None => atd.cbCalls = atd.conflicts
    /\ (/\ atd.pc = "returned"
        /\ atd.rollbackfunc = NeverResolves
        /\ atd.conflicts >= 1)
           => /\ atd.attempts = MAX_COMMIT_RETRIES
              /\ atd.cbCalls = MAX_COMMIT_RETRIES
              /\ ~atd.committed
              /\ pending = <<>>
              /\ db = atd.dbAtCall

\* C6: add_to_db terminates; it never makes more than MAX_COMMIT_RETRIES
\* commit attempts, the callback runs once after each failed attempt, and
\* with a callback that never removes the conflict it makes exactly
\* MAX_COMMIT_RETRIES attempts and returns false with nothing stored.
C6_BoundedRetries ==
    /\ []C6_Bounded
    /\ <>(atd.pc \in {"returned", "raised"})

\* ten attempts, ten callback runs, and false returned
C6_Witness ==
    /\ atd.pc = "returned"
    /\ atd.rollbackfunc = NeverResolves
    /\ atd.attempts = MAX_COMMIT_RETRIES
    /\ atd.cbCalls = MAX_COMMIT_RETRIES
    /\ ~atd.committed

\* C7: a commit that raises another error than an integrity conflict ends
\* add_to_db with that error propagating: the callback is not run for it,
\* nothing is committed, and no further attempt follows.
C7_OtherErrorPropagates ==
    [][/\ atd.pc = "raised" => (atd' = atd /\ db' = db)
       /\ (atd' # atd /\ atd'.lastError = OperationalError)
             => /\ atd'.pc = "raised"
                /\ atd'.attempts = atd.attempts + 1
                /\ atd'.cbCalls = atd.cbCalls
                /\ ~atd'.committed
                /\ db' = db]_vars

\* the store failed the commit of a retry, after the callback had run for
\* an earlier conflict
C7_Witness ==
    /\ atd.pc = "raised"
    /\ atd.lastError = OperationalError
    /\ atd.rollbackfunc # None
    /\ atd.conflicts >= 1
    /\ atd.cbCalls = atd.conflicts

(* ----------------------------------------------------------- claims C8-10 *)
\* C8: when the scope is left the session has been closed exactly once, as
\* the last operation; with no error the scope committed and did not roll
\* back; with an error of the body or of the final commit it rolled back and
\* that same error reaches the caller.
C8_ScopeCommitsOrRollsBack ==
    scope.pc = "exit" =>
        /\ pending = <<>>
        /\ IF scope.raised = NoError
           THEN /\ scope.log = <<"commit", "close">>
                /\ scope.propagated = NoError
           ELSE /\ scope.propagated = scope.raised
                /\ \/ scope.log = <<"rollback", "close">>
                   \/ /\ scope.log = <<"commit", "rollback", "close">>
                      /\ scope.raised # BodyError

\* the final commit failed: commit, rollback, close, and the commit's error
\* went on to the caller
C8_Witness ==
    /\ scope.pc = "exit"
    /\ scope.log = <<"commit", "rollback", "close">>
    /\ scope.raised = OperationalError
    /\ scope.propagated = OperationalError

\* C9: if the body of a session_scope calls accessors and an error then
\* leaves the scope, no write made inside the scope is in the store that the
\* other sessions see.
C9_NoWriteSurvivesFailedScope ==
    (scope.pc = "exit" /\ scope.propagated # NoError)
        => db = scope.dbAtEnter

\* C10: through one session, all add_user calls with one email return the
\* same id, never None, and after each of them the store holds exactly one
\* User row with that email, the one with that id.
C10_AddUserIdempotent ==
    \A i \in 1..Len(history) :
        /\ history[i].result # None
        /\ \A j \in 1..Len(history) :
               history[j].email = history[i].email
                   => history[j].result = history[i].result
        /\ {u.id : u \in {x \in db.users : x.email = history[i].email}}
               = {history[i].result}
        /\ Cardinality({x \in db.users : x.email = history[i].email}) = 1

\* a call created the user (id 2, after the user registered beforehand) and
\* a later call with the same email returned the id of that row
C10_Witness ==
    /\ scope.pc = "none"
    /\ \E i, j \in 1..Len(history) :
           /\ i < j
           /\ history[i].email = history[j].email
           /\ history[i].result = 2
           /\ history[j].result = 2

(* ---------------------------------------------------------- claims C11-12 *)
BothDone(op) ==
    /\ ses[1].op = op /\ ses[1].pc = "done"
    /\ ses[2].op = op /\ ses[2].pc = "done"

\* C11: when two sessions have each called add_user with the same email, in
\* any interleaving, both calls return the id of the one User row with that
\* email, and neither returns None.
C11_ConcurrentAddUser ==
    (BothDone("add_user") /\ ses[1].email = ses[2].email) =>
        /\ ses[1].result # None
        /\ ses[2].result # None
        /\ \E u \in db.users :
               /\ u.email = ses[1].email
               /\ u.id = ses[1].result
               /\ u.id = ses[2].result

MaxOf(a, b) == IF a >= b THEN a ELSE b

C12_OneRowMaxPrivilege ==
    /\ \A m1, m2 \in db.members :
           (m1.user_id = m2.user_id /\ m1.club_id = m2.club_id) => m1 = m2
    /\ \A s \in Sessions :
           (ses[s].op = "add_club_member" /\ ses[s].pc = "done") =>
               \E m \in db.members :
                   /\ m.user_id = ses[s].user_id
                   /\ m.club_id = ses[s].club_id
                   /\ m.member_privilege =
                          IF ses[s].curr = -1 THEN ses[s].privilege
                          ELSE MaxOf(ses[s].curr, ses[s].privilege)

C12_NeverLowered ==
    \A m \in db.members :
        \E n \in db'.members :
            /\ n.user_id = m.user_id
            /\ n.club_id = m.club_id
            /\ n.member_privilege >= m.member_privilege

\* C12: over any sequence of add_club_member calls the store holds at most
\* one membership row per (user, club); a call with privilege p on a row of
\* privilege c leaves it at max(c, p), a call for a new pair creates the row
\* with p, and no step lowers a privilege.
C12_MembershipNeverDowngraded ==
    /\ []C12_OneRowMaxPrivilege
    /\ [][C12_NeverLowered]_vars

\* a call with MEMBER found the row at OFFICER and left it there
C12_Witness ==
    /\ ses[1].op = "add_club_member"
    /\ ses[1].pc = "done"
    /\ ses[1].curr = OFFICER
    /\ ses[1].privilege = MEMBER
    /\ \E m \in db.members :
           /\ m.user_id = ses[1].user_id
           /\ m.club_id = ses[1].club_id
           /\ m.member_privilege = OFFICER

(* -------------------------------------------------------------- claim C18 *)
SamePair ==
    /\ ses[1].user_id = ses[2].user_id
    /\ ses[1].club_id = ses[2].club_id

\* C18: when two sessions have each called add_club_member for the same
\* (user, club), in any interleaving, and both calls have returned, the store
\* holds exactly one membership row for the pair and its privilege is the
\* greatest of the two requested privileges and of the privilege a call found
\* there, also when no row existed before either call.
C18_ConcurrentMembership ==
    (BothDone("add_club_member") /\ SamePair) =>
        LET rows == QueryMembership(db, ses[1].club_id, ses[1].user_id)
        IN  /\ Cardinality(rows) = 1
            /\ \A m \in rows :
                   m.member_privilege =
                       MaxOf(MaxOf(ses[1].privilege, ses[2].privilege),
                             MaxOf(ses[1].curr, ses[2].curr))

(* ------------------------------------------------------- claims C13, C19 *)
\* C13: after any sequence of add_event_tags calls for one event made
\* through one session, the tag rows of the event are exactly the tags of
\* the last call's list; no tag of an earlier call remains.
C13_TagsAreLastList ==
    \A s \in Sessions :
        (ses[s].op = "add_event_tags" /\ ses[s].pc = "done") =>
            TagsOf(db, ses[s].event_id) = Range(ses[s].tags)

\* the event had tags 1 and 2 from an earlier call; the call with [1] left 1
C13_Witness ==
    /\ ses[1].op = "add_event_tags"
    /\ ses[1].pc = "done"
    /\ TagsOf(ses[1].before, ses[1].event_id) = {1, 2}
    /\ ses[1].tags = <<1>>
    /\ TagsOf(db, ses[1].event_id) = {1}

\* C19: when two sessions have each called add_event_tags for the same
\* event, in any interleaving, and both have committed, the tag rows of the
\* event are exactly the list of one of the two calls, never a union or a
\* mixture of both lists.
C19_ConcurrentTagsOneList ==
    (BothDone("add_event_tags") /\ ses[1].event_id = ses[2].event_id) =>
        \/ TagsOf(db, ses[1].event_id) = Range(ses[1].tags)
        \/ TagsOf(db, ses[1].event_id) = Range(ses[2].tags)

(* -------------------------------------------------------- claims C14-C17 *)
\* C14: if add_event does not return a new event id (it returns None, or an
\* error leaves it, also one from its tag-replacement step), the store holds
\* no Event row created by that call.
C14_FailedAddEventLeavesNoRow ==
    \A s \in Sessions :
        (/\ ses[s].op = "add_event"
         /\ \/ ses[s].pc = "raised"
            \/ ses[s].pc = "done" /\ ses[s].result = None) =>
            db.events = ses[s].before.events

\* C15: whenever update_event returns False (the event is absent, or an
\* assignment raised), the store is as it was before the call: no field of
\* an event and no tag row differs, also when a non-empty tag list was
\* supplied.
C15_FalseMeansUnchanged ==
    \A s \in Sessions :
        (ses[s].op = "update_event" /\ ses[s].pc = "done"
            /\ ~ses[s].success) =>
            db = ses[s].before

\* C16: update_event never changes the user_id or the club_id of an event,
\* whatever its arguments, also with a club_id argument that differs from
\* the event's club.
C16_OwnerAndClubKept ==
    \A s \in Sessions :
        (ses[s].op = "update_event" /\ ses[s].pc # "idle") =>
            \A e \in ses[s].before.events :
                \E e2 \in db.events :
                    /\ e2.id = e.id
                    /\ e2.user_id = e.user_id
                    /\ e2.club_id = e.club_id

\* the call changed the content of an event of club 1 and named club 2
C16_Witness ==
    /\ ses[1].op = "update_event"
    /\ ses[1].pc = "done"
    /\ ses[1].success
    /\ ses[1].club_id = 2
    /\ \E e \in ses[1].before.events, e2 \in db.events :
           /\ e.id = ses[1].event_id
           /\ e2.id = e.id
           /\ e.club_id = 1
           /\ e2.club_id = 1
           /\ e2.content # e.content

\* C17: update_event of an existing event replaces the event's tag rows with
\* exactly the supplied list when the list is non-empty, and leaves the tag
\* rows as they were when event_tags is None or an empty list.
C17_TagsReplacedOnlyByNonEmptyList ==
    \A s \in Sessions :
        (/\ ses[s].op = "update_event"
         /\ ses[s].pc = "done"
         /\ QueryEventById(ses[s].before, ses[s].event_id) # {}) =>
            IF ses[s].given /\ ses[s].tags # <<>>
            THEN /\ TagsOf(db, ses[s].event_id) = Range(ses[s].tags)
                 /\ \A r \in db.tags :
                        r.event_id # ses[s].event_id
                            => r \in ses[s].before.tags
            ELSE db.tags = ses[s].before.tags

\* an empty list was supplied for an event with tags, and the tags stayed
C17_Witness ==
    /\ ses[1].op = "update_event"
    /\ ses[1].pc = "done"
    /\ ses[1].success
    /\ ses[1].given
    /\ ses[1].tags = <<>>
    /\ TagsOf(ses[1].before, ses[1].event_id) # {}
    /\ db.tags = ses[1].before.tags

(* -------------------------------------------------------------- claim C20 *)
\* C20: add_user called with an email that is registered changes nothing in
\* the store: the user's privilege stays as it was, also when the call asks
\* for another privilege, and no row is added.
C20_RegisteredEmailChangesNothing ==
    \A s \in Sessions :
        (/\ ses[s].op = "add_user"
         /\ ses[s].pc = "done"
         /\ QueryUserByEmail(ses[s].before, ses[s].email) # {}) =>
            db = ses[s].before

\* the call asked for ADMIN for a registered NORMAL user, who stayed NORMAL
C20_Witness ==
    /\ ses[1].op = "add_user"
    /\ ses[1].pc = "done"
    /\ ses[1].privilege = ADMIN
    /\ \E u \in db.users :
           /\ u.email = ses[1].email
           /\ u.id = ses[1].result
           /\ u.user_privilege = NORMAL
    /\ QueryUserByEmail(ses[1].before, ses[1].email) # {}

====
